---- MODULE Spec2Model ----
(***************************************************************************)
(* Model of examples/gravitational_waves_detection.ipynb: a Jupyter kernel *)
(* whose namespace is filled by the notebook's twelve code cells.          *)
(*                                                                         *)
(* Arrays are functions over 0..n-1, as in Python.  A time series is a     *)
(* record [id, wave, noise]: which sample it belongs to, whether it holds  *)
(* a gravitational wave and whether it holds noise.  A transformer object  *)
(* is the record of its class and constructor arguments; the output of a   *)
(* transformer is its input tagged with the transformer (field via), so    *)
(* that what a value was computed from, and by which stages in which       *)
(* order, can be read off the value.                                       *)
(***************************************************************************)
EXTENDS Integers, Sequences, FiniteSets, TLC

\* n_signals of the model: the notebook generates 100 series (N_SIGNALS).
MaxSignals == 3
\* longest y_train and longest y_valid drawn by InitScores
MaxTrain == 3
MaxValid == 2

N_SIGNALS == 100
\* test_size = 0.1, in tenths
TEST_SIZE_TENTHS == 1

VARIABLES
    bound,                  \* the names bound in the kernel's namespace
    last,                   \* the code cell executed last (0: fresh kernel)
    error,                  \* how that cell ended: "none" or the exception
    n_signals, noisy_signals, gw_signals, labels,
    background_idx, signal_idx, ts_noise, ts_background, ts_signal,
    embedding_dimension, embedding_time_delay, stride, embedder,
    steps, topological_transfomer, features,
    rng42,                  \* the permutation RandomState(42) yields; <<>> until drawn
    X_train, X_valid, y_train, y_valid,
    model,
    printed                 \* the lines print_scores printed last

vars == <<bound, last, error, n_signals, noisy_signals, gw_signals, labels,
          background_idx, signal_idx, ts_noise, ts_background, ts_signal,
          embedding_dimension, embedding_time_delay, stride, embedder,
          steps, topological_transfomer, features, rng42,
          X_train, X_valid, y_train, y_valid, model, printed>>

dataVars == <<n_signals, noisy_signals, gw_signals, labels>>
idxVars == <<background_idx, signal_idx, ts_noise, ts_background, ts_signal>>
embVars == <<embedding_dimension, embedding_time_delay, stride, embedder>>
pipeVars == <<steps, topological_transfomer>>
splitVars == <<rng42, X_train, X_valid, y_train, y_valid>>

-----------------------------------------------------------------------------
(* Arrays *)

Size(a) == Cardinality(DOMAIN a)

Arrays(n, S) == [0..(n - 1) -> S]

NoSeries == [id |-> -1, wave |-> 0, noise |-> 0]

-----------------------------------------------------------------------------
(* Statements of a cell: the names a statement reads and the names it      *)
(* binds.  A statement that reads an unbound name raises NameError and the *)
(* rest of the cell is not executed; what the cell bound before stays.     *)

Stmt(r, w) == [r |-> r, w |-> w]

RECURSIVE ExecFrom(_, _, _)
ExecFrom(stmts, i, ns) ==
    IF i > Len(stmts) THEN [done |-> Len(stmts), ns |-> ns]
    ELSE IF stmts[i].r \subseteq ns
         THEN ExecFrom(stmts, i + 1, ns \cup stmts[i].w)
         ELSE [done |-> i - 1, ns |-> ns]

Exec(stmts) == ExecFrom(stmts, 1, bound)

Outcome(stmts) == IF Exec(stmts).done = Len(stmts) THEN "none" ELSE "NameError"

VideoStmts ==
    << Stmt({}, {"YouTubeVideo"}),
       Stmt({"YouTubeVideo"}, {}) >>

Video2Stmts ==
    << Stmt({"YouTubeVideo"}, {}) >>

GenerateStmts ==
    << Stmt({}, {"make_gravitational_waves"}),
       Stmt({}, {"Path"}),
       Stmt({}, {"R"}),
       Stmt({}, {"n_signals"}),
       Stmt({"Path"}, {"DATA"}),
       Stmt({"make_gravitational_waves", "DATA", "n_signals", "R"},
            {"noisy_signals", "gw_signals", "labels"}),
       Stmt({"noisy_signals"}, {}),
       Stmt({"noisy_signals"}, {}) >>

IndexStmts ==
    << Stmt({}, {"np"}),
       Stmt({}, {"make_subplots"}),
       Stmt({}, {"go"}),
       Stmt({"np", "labels"}, {"background_idx"}),
       Stmt({"np", "labels"}, {"signal_idx"}),
       Stmt({"noisy_signals", "background_idx"}, {"ts_noise"}),
       Stmt({"noisy_signals", "signal_idx"}, {"ts_background"}),
       Stmt({"gw_signals", "signal_idx"}, {"ts_signal"}),
       Stmt({"make_subplots"}, {"fig"}),
       Stmt({"fig", "go", "ts_noise"}, {}),
       Stmt({"fig", "go", "ts_background"}, {}),
       Stmt({"fig", "go", "ts_signal"}, {}),
       Stmt({"fig"}, {}) >>

EmbedWaveStmts ==
    << Stmt({}, {"SingleTakensEmbedding"}),
       Stmt({}, {"embedding_dimension"}),
       Stmt({}, {"embedding_time_delay"}),
       Stmt({}, {"stride"}),
       Stmt({"SingleTakensEmbedding", "embedding_time_delay",
             "embedding_dimension", "stride"}, {"embedder"}),
       Stmt({"embedder", "gw_signals"}, {"y_gw_embedded"}) >>

PlotWaveStmtsNoImport ==
    << Stmt({}, {"plot_point_cloud"}),
       Stmt({"PCA"}, {"pca"}),
       Stmt({"pca", "y_gw_embedded"}, {"y_gw_embedded_pca"}),
       Stmt({"plot_point_cloud", "y_gw_embedded_pca"}, {}) >>

PlotWaveStmts ==
    << Stmt({}, {"PCA"}),
       Stmt({}, {"plot_point_cloud"}),
       Stmt({"PCA"}, {"pca"}),
       Stmt({"pca", "y_gw_embedded"}, {"y_gw_embedded_pca"}),
       Stmt({"plot_point_cloud", "y_gw_embedded_pca"}, {}) >>

EmbedNoiseStmts ==
    << Stmt({}, {"embedding_dimension"}),
       Stmt({}, {"embedding_time_delay"}),
       Stmt({}, {"stride"}),
       Stmt({"SingleTakensEmbedding", "embedding_time_delay",
             "embedding_dimension", "stride"}, {"embedder"}),
       Stmt({"embedder", "noisy_signals", "background_idx"}, {"y_noise_embedded"}),
       Stmt({"PCA"}, {"pca"}),
       Stmt({"pca", "y_noise_embedded"}, {"y_noise_embedded_pca"}),
       Stmt({"plot_point_cloud", "y_noise_embedded_pca"}, {}) >>

PipelineStmts ==
    << Stmt({}, {"PersistenceEntropy", "Scaler"}),
       Stmt({}, {"VietorisRipsPersistence"}),
       Stmt({}, {"CollectionTransformer"}),
       Stmt({}, {"Pipeline"}),
       Stmt({}, {"TakensEmbedding"}),
       Stmt({}, {"embedding_dimension"}),
       Stmt({}, {"embedding_time_delay"}),
       Stmt({}, {"stride"}),
       Stmt({"TakensEmbedding", "embedding_time_delay",
             "embedding_dimension", "stride"}, {"embedder"}),
       Stmt({"CollectionTransformer", "PCA"}, {"batch_pca"}),
       Stmt({"VietorisRipsPersistence"}, {"persistence"}),
       Stmt({"Scaler"}, {"scaling"}),
       Stmt({"PersistenceEntropy"}, {"entropy"}),
       Stmt({"embedder", "batch_pca", "persistence", "scaling", "entropy"},
            {"steps"}),
       Stmt({"Pipeline", "steps"}, {"topological_transfomer"}) >>

FitTransformStmts ==
    << Stmt({"topological_transfomer", "noisy_signals"}, {"features"}) >>

SplitStmts ==
    << Stmt({}, {"train_test_split"}),
       Stmt({"train_test_split", "features", "labels"},
            {"X_train", "X_valid", "y_train", "y_valid"}) >>

ScoresStmts ==
    << Stmt({}, {"accuracy_score", "roc_auc_score"}),
       Stmt({}, {"print_scores"}) >>

\* print_scores(model) reads, besides its argument, the globals its body uses
FitStmts ==
    << Stmt({}, {"LogisticRegression"}),
       Stmt({"LogisticRegression"}, {"model"}),
       Stmt({"model", "X_train", "y_train"}, {}),
       Stmt({"print_scores", "model", "accuracy_score", "roc_auc_score",
             "X_train", "y_train", "X_valid", "y_valid"}, {}) >>

-----------------------------------------------------------------------------
(* The data generator: three parallel collections of n series, the noisy   *)
(* series, the reference waves and a binary label per series; series i     *)
(* holds a wave exactly when labels[i] = 1.                                *)

make_gravitational_waves(n) ==
    { [ noisy  |-> [i \in 0..(n - 1) |-> [id |-> i, wave |-> l[i], noise |-> 1]],
        gw     |-> [i \in 0..(n - 1) |-> [id |-> i, wave |-> 1, noise |-> 0]],
        labels |-> l ] : l \in Arrays(n, {0, 1}) }

\* np.argmin / np.argmax: the index of the first occurrence of the extreme value
argmin(a) ==
    CHOOSE i \in DOMAIN a :
        /\ \A j \in DOMAIN a : a[i] <= a[j]
        /\ \A j \in DOMAIN a : j < i => a[j] > a[i]

argmax(a) ==
    CHOOSE i \in DOMAIN a :
        /\ \A j \in DOMAIN a : a[i] >= a[j]
        /\ \A j \in DOMAIN a : j < i => a[j] < a[i]

-----------------------------------------------------------------------------
(* Transformers *)

Embedder(cls, delay, dim, strd) ==
    [cls |-> cls, args |-> <<delay, dim, strd>>]

Transformer(cls, args) == [cls |-> cls, args |-> args]

NoObject == Transformer("None", <<>>)

StepsListSwapped(emb, pca, pers, scal, entr) ==
    << [name |-> "embedder", obj |-> emb],
       [name |-> "persistence", obj |-> pers],
       [name |-> "pca", obj |-> pca],
       [name |-> "scaling", obj |-> scal],
       [name |-> "entropy", obj |-> entr] >>

\* the list `steps` of the pipeline cell, built from the objects the five
\* globals are bound to when the list is built
StepsList(emb, pca, pers, scal, entr) ==
    << [name |-> "embedder", obj |-> emb],
       [name |-> "pca", obj |-> pca],
       [name |-> "persistence", obj |-> pers],
       [name |-> "scaling", obj |-> scal],
       [name |-> "entropy", obj |-> entr] >>

\* one stage: the transformer acts on every element of the collection, and
\* what it returns is what it was given, transformed by it
StageFitTransform(obj, Xt) ==
    [rows |-> Xt.rows, via |-> Append(Xt.via, obj)]

\* Pipeline.fit_transform: each step is fitted on, and transforms, the
\* output of the step before it; the first step is given X
RECURSIVE PipelineFrom(_, _, _)
PipelineFrom(pipe, k, Xt) ==
    IF k > Len(pipe) THEN Xt
    ELSE PipelineFrom(pipe, k + 1, StageFitTransform(pipe[k].obj, Xt))

PipelineFitTransform(pipe, X) ==
    PipelineFrom(pipe, 1, [rows |-> [i \in DOMAIN X |-> X[i].id], via |-> <<>>])

NoFeatures == [rows |-> <<>>, via |-> <<>>]

NoModel == [fitted |-> FALSE, X |-> <<>>, y |-> <<>>, proba |-> <<>>]

-----------------------------------------------------------------------------
\* a fresh kernel
FreshKernel ==
    /\ bound = {}
    /\ last = 0
    /\ error = "none"
    /\ n_signals = 0
    /\ noisy_signals = <<>>
    /\ gw_signals = <<>>
    /\ labels = <<>>
    /\ background_idx = -1
    /\ signal_idx = -1
    /\ ts_noise = NoSeries
    /\ ts_background = NoSeries
    /\ ts_signal = NoSeries
    /\ embedding_dimension = 0
    /\ embedding_time_delay = 0
    /\ stride = 0
    /\ embedder = NoObject
    /\ steps = <<>>
    /\ topological_transfomer = <<>>
    /\ features = NoFeatures
    /\ X_train = <<>>
    /\ X_valid = <<>>
    /\ y_train = <<>>
    /\ y_valid = <<>>
    /\ model = NoModel
    /\ printed = <<>>

Init ==
    /\ FreshKernel
    /\ rng42 = <<>>

\* what every cell does to the kernel besides its assignments
Ran(k, stmts) ==
    /\ bound' = Exec(stmts).ns
    /\ error' = Outcome(stmts)
    /\ last' = k

CellVideo ==
    /\ Ran(1, VideoStmts)
    /\ UNCHANGED <<dataVars, idxVars, embVars, pipeVars, features, splitVars,
                   model, printed>>

CellVideo2 ==
    /\ Ran(2, Video2Stmts)
    /\ UNCHANGED <<dataVars, idxVars, embVars, pipeVars, features, splitVars,
                   model, printed>>

CellGenerate ==
    /\ Ran(3, GenerateStmts)
    /\ n_signals' = MaxSignals
    /\ \E d \in make_gravitational_waves(MaxSignals) :
          /\ noisy_signals' = d.noisy
          /\ gw_signals' = d.gw
          /\ labels' = d.labels
    /\ UNCHANGED <<idxVars, embVars, pipeVars, features, splitVars, model, printed>>

CellIndex ==
    LET x == Exec(IndexStmts)
        bi == IF x.done >= 4 THEN argmin(labels) ELSE background_idx
        si == IF x.done >= 5 THEN argmax(labels) ELSE signal_idx
    IN  /\ Ran(4, IndexStmts)
        /\ background_idx' = bi
        /\ signal_idx' = si
        /\ ts_noise' = IF x.done >= 6 THEN noisy_signals[bi] ELSE ts_noise
        /\ ts_background' = IF x.done >= 7 THEN noisy_signals[si] ELSE ts_background
        /\ ts_signal' = IF x.done >= 8 THEN gw_signals[si] ELSE ts_signal
        /\ UNCHANGED <<dataVars, embVars, pipeVars, features, splitVars, model, printed>>

CellEmbedWave ==
    LET x == Exec(EmbedWaveStmts) IN
        /\ Ran(5, EmbedWaveStmts)
        /\ embedding_dimension' = 30
        /\ embedding_time_delay' = 30
        /\ stride' = 5
        /\ embedder' = IF x.done >= 5
                       THEN Embedder("SingleTakensEmbedding", embedding_time_delay',
                                     embedding_dimension', stride')
                       ELSE embedder
        /\ UNCHANGED <<dataVars, idxVars, pipeVars, features, splitVars, model, printed>>

CellPlotWave ==
    /\ Ran(6, PlotWaveStmts)
    /\ UNCHANGED <<dataVars, idxVars, embVars, pipeVars, features, splitVars,
                   model, printed>>

CellEmbedNoise ==
    LET x == Exec(EmbedNoiseStmts) IN
        /\ Ran(7, EmbedNoiseStmts)
        /\ embedding_dimension' = 30
        /\ embedding_time_delay' = 30
        /\ stride' = 5
        /\ embedder' = IF x.done >= 4
                       THEN Embedder("SingleTakensEmbedding", embedding_time_delay',
                                     embedding_dimension', stride')
                       ELSE embedder
        /\ UNCHANGED <<dataVars, idxVars, pipeVars, features, splitVars, model, printed>>

CellPipeline ==
    LET x == Exec(PipelineStmts)
        emb == IF x.done >= 9
               THEN Embedder("TakensEmbedding", embedding_time_delay',
                             embedding_dimension', stride')
               ELSE embedder
        st == IF x.done >= 14
              THEN StepsList(emb,
                             Transformer("CollectionTransformer(PCA)", <<3>>),
                             Transformer("VietorisRipsPersistence", <<0, 1>>),
                             Transformer("Scaler", <<>>),
                             Transformer("PersistenceEntropy", <<1, -10>>))
              ELSE steps
    IN  /\ Ran(8, PipelineStmts)
        /\ embedding_dimension' = 200
        /\ embedding_time_delay' = 10
        /\ stride' = 10
        /\ embedder' = emb
        /\ steps' = st
        /\ topological_transfomer' = IF x.done >= 15 THEN st ELSE topological_transfomer
        /\ UNCHANGED <<dataVars, idxVars, features, splitVars, model, printed>>

FitTransformPipelineLate ==
    [k \in 1..Len(topological_transfomer) |->
        IF topological_transfomer[k].name = "embedder"
        THEN [name |-> "embedder", obj |-> embedder]
        ELSE topological_transfomer[k]]

\* the pipeline object the fit_transform cell calls: the one the name
\* topological_transfomer is bound to, holding the objects `steps` was built from
FitTransformPipeline == topological_transfomer

FitTransformInputTail ==
    [i \in 0..(Size(noisy_signals) - 2) |-> noisy_signals[i + 1]]

\* the collection the fit_transform cell hands to the pipeline
FitTransformInput == noisy_signals

CellFitTransform ==
    LET x == Exec(FitTransformStmts) IN
        /\ Ran(9, FitTransformStmts)
        /\ features' = IF x.done >= 1
                       THEN PipelineFitTransform(FitTransformPipeline, FitTransformInput)
                       ELSE features
        /\ UNCHANGED <<dataVars, idxVars, embVars, pipeVars, splitVars, model, printed>>

-----------------------------------------------------------------------------
(* train_test_split(features, labels, test_size=0.1, random_state=42) *)

\* n_test = ceil(test_size * n_samples), n_train = n_samples - n_test; the
\* product 0.1 * n in double precision has the ceiling of n / 10 for the n
\* used here (0.1 * 100 is 10.0)
n_test(n) == (n * TEST_SIZE_TENTHS + 9) \div 10

n_train(n) == n - n_test(n)

PermutationsOf(n) ==
    { p \in Arrays(n, 0..(n - 1)) : \A i, j \in 0..(n - 1) : p[i] = p[j] => i = j }

SplitPermutationsUnseeded(n) == PermutationsOf(n)

\* random_state=42 seeds a fresh generator at every call, so every call
\* permutes n samples the same way: the permutation is drawn once
SplitPermutations(n) ==
    IF Size(rng42) = n THEN {rng42} ELSE PermutationsOf(n)

\* the first ntest indices of the permutation are the test set, the rest
\* the training set, and every array is indexed by them
Split(X, y, perm, ntest) ==
    [ X_train |-> [k \in 0..(Size(X) - ntest - 1) |-> X[perm[ntest + k]]],
      X_valid |-> [k \in 0..(ntest - 1) |-> X[perm[k]]],
      y_train |-> [k \in 0..(Size(X) - ntest - 1) |-> y[perm[ntest + k]]],
      y_valid |-> [k \in 0..(ntest - 1) |-> y[perm[k]]] ]

-----------------------------------------------------------------------------
(* LogisticRegression and the metrics.  A metric is the fraction num/den. *)

\* the probabilities of class 1 a fitted model gives: 0, 1/2 and 1, in halves
ProbaLevels == {0, 1, 2}

\* LogisticRegression(): an estimator not fitted yet
Unfitted == NoModel

Classes(y) == { y[i] : i \in DOMAIN y }

\* predict_proba(X)[:, 1]: the level of each row of X
predict_proba(m, X) == [k \in DOMAIN X |-> m.proba[X[k]]]

\* predict: class 1 where the probability of class 1 exceeds one half
predict(m, X) == [k \in DOMAIN X |-> IF m.proba[X[k]] > 1 THEN 1 ELSE 0]

accuracy_count(a, b) ==
    [num |-> Cardinality({ k \in DOMAIN a : a[k] = b[k] }), den |-> 1]

precision_score(a, b) ==
    LET tp == Cardinality({ k \in DOMAIN a : a[k] = 1 /\ b[k] = 1 })
        pp == Cardinality({ k \in DOMAIN a : b[k] = 1 })
    IN  [num |-> tp, den |-> IF pp = 0 THEN 1 ELSE pp]

\* accuracy_score(a, b): the mean of a == b
accuracy_score(a, b) ==
    [num |-> Cardinality({ k \in DOMAIN a : a[k] = b[k] }), den |-> Size(a)]

\* roc_auc_score(y_true, y_score): undefined when y_true holds one class
\* only, where the scikit-learn releases that run on the notebook's Python
\* 3.8 raise ValueError; else the fraction of (positive, negative) pairs
\* the score orders rightly, a tie counting one half
roc_auc_score(y_true, y_score) ==
    LET pos == { k \in DOMAIN y_true : y_true[k] = 1 }
        neg == { k \in DOMAIN y_true : y_true[k] = 0 }
        gt  == Cardinality({ pr \in pos \X neg : y_score[pr[1]] > y_score[pr[2]] })
        eq  == Cardinality({ pr \in pos \X neg : y_score[pr[1]] = y_score[pr[2]] })
    IN  IF pos = {} \/ neg = {}
        THEN [raised |-> TRUE, num |-> 0, den |-> 1]
        ELSE [raised |-> FALSE, num |-> 2 * gt + eq,
              den |-> 2 * Cardinality(pos) * Cardinality(neg)]

Round3Truncate(v) == (1000 * v.num) \div v.den

\* round(v, 3), in thousandths: to the nearest, a tie to the even one
Round3(v) ==
    LET t  == 1000 * v.num
        fl == t \div v.den
        r2 == 2 * (t % v.den)
    IN  IF r2 < v.den THEN fl
        ELSE IF r2 > v.den THEN fl + 1
        ELSE IF fl % 2 = 0 THEN fl ELSE fl + 1

\* print_scores: the dictionary res is built first, entry by entry, and an
\* exception in an entry leaves nothing printed
print_scores(fitted_model) ==
    LET acc_t == accuracy_score(predict(fitted_model, X_train), y_train)
        auc_t == roc_auc_score(y_train, predict_proba(fitted_model, X_train))
        acc_v == accuracy_score(predict(fitted_model, X_valid), y_valid)
        auc_v == roc_auc_score(y_valid, predict_proba(fitted_model, X_valid))
    IN  IF auc_t.raised \/ auc_v.raised
        THEN [raised |-> TRUE, lines |-> <<>>]
        ELSE [raised |-> FALSE,
              lines  |-> << [k |-> "Accuracy on train:", v |-> Round3(acc_t)],
                            [k |-> "ROC AUC on train:", v |-> Round3(auc_t)],
                            [k |-> "Accuracy on valid:", v |-> Round3(acc_v)],
                            [k |-> "ROC AUC on valid:", v |-> Round3(auc_v)] >>]

-----------------------------------------------------------------------------
\* a cell whose statement j raised exc: the statements before it have run
Raised(k, stmts, j, exc) ==
    /\ bound' = ExecFrom(SubSeq(stmts, 1, j - 1), 1, bound).ns
    /\ error' = exc
    /\ last' = k

\* the arrays handed to train_test_split
SplitArrays == <<features.rows, labels>>

CellSplit ==
    LET x == Exec(SplitStmts)
        X == SplitArrays[1]
        y == SplitArrays[2]
        n == Size(X)
    IN  IF x.done < 2
        THEN /\ Ran(10, SplitStmts)
             /\ UNCHANGED <<splitVars>>
        ELSE IF Size(y) # n \/ n_train(n) = 0
        THEN /\ Raised(10, SplitStmts, 2, "ValueError")
             /\ UNCHANGED <<splitVars>>
        ELSE /\ Ran(10, SplitStmts)
             /\ \E perm \in SplitPermutations(n) :
                   LET s == Split(X, y, perm, n_test(n)) IN
                   /\ rng42' = IF Size(rng42) = n THEN rng42 ELSE perm
                   /\ X_train' = s.X_train
                   /\ X_valid' = s.X_valid
                   /\ y_train' = s.y_train
                   /\ y_valid' = s.y_valid
    /\ UNCHANGED <<dataVars, idxVars, embVars, pipeVars, features, model, printed>>

CellScores ==
    /\ Ran(11, ScoresStmts)
    /\ UNCHANGED <<dataVars, idxVars, embVars, pipeVars, features, splitVars,
                   model, printed>>

FitArraysAll == <<features.rows, labels>>

\* the arrays handed to model.fit
FitArrays == <<X_train, y_train>>

CellFit ==
    LET x == Exec(FitStmts)
        X == FitArrays[1]
        y == FitArrays[2]
    IN  /\ IF x.done < 3
           THEN /\ Ran(12, FitStmts)
                /\ model' = IF x.done >= 2 THEN Unfitted ELSE model
                /\ UNCHANGED printed
           ELSE IF Cardinality(Classes(y)) < 2
           THEN /\ Raised(12, FitStmts, 3, "ValueError")
                /\ model' = Unfitted
                /\ UNCHANGED printed
           ELSE \E f \in [0..(Size(features.rows) - 1) -> ProbaLevels] :
                   LET m == [fitted |-> TRUE, X |-> X, y |-> y, proba |-> f]
                       res == print_scores(m)
                   IN  /\ model' = m
                       /\ IF x.done < 4
                          THEN Ran(12, FitStmts) /\ UNCHANGED printed
                          ELSE IF res.raised
                          THEN Raised(12, FitStmts, 4, "ValueError") /\ UNCHANGED printed
                          ELSE Ran(12, FitStmts) /\ printed' = res.lines
        /\ UNCHANGED <<dataVars, idxVars, embVars, pipeVars, features, splitVars>>

\* Kernel > Restart: the namespace is emptied; the seeded generator's
\* output is a property of the library, not of the session
Restart ==
    /\ last # 0
    /\ bound' = {}
    /\ last' = 0
    /\ error' = "none"
    /\ n_signals' = 0
    /\ noisy_signals' = <<>>
    /\ gw_signals' = <<>>
    /\ labels' = <<>>
    /\ background_idx' = -1
    /\ signal_idx' = -1
    /\ ts_noise' = NoSeries
    /\ ts_background' = NoSeries
    /\ ts_signal' = NoSeries
    /\ embedding_dimension' = 0
    /\ embedding_time_delay' = 0
    /\ stride' = 0
    /\ embedder' = NoObject
    /\ steps' = <<>>
    /\ topological_transfomer' = <<>>
    /\ features' = NoFeatures
    /\ X_train' = <<>>
    /\ X_valid' = <<>>
    /\ y_train' = <<>>
    /\ y_valid' = <<>>
    /\ model' = NoModel
    /\ printed' = <<>>
    /\ UNCHANGED rng42

-----------------------------------------------------------------------------
(* Restart & Run All: the cells run top to bottom, and the run stops at    *)
(* the first cell that raises.                                             *)

Next ==
    \/ last = 0 /\ error = "none" /\ CellVideo
    \/ last = 1 /\ error = "none" /\ CellVideo2
    \/ last = 2 /\ error = "none" /\ CellGenerate
    \/ last = 3 /\ error = "none" /\ CellIndex
    \/ last = 4 /\ error = "none" /\ CellEmbedWave
    \/ last = 5 /\ error = "none" /\ CellPlotWave
    \/ last = 6 /\ error = "none" /\ CellEmbedNoise
    \/ last = 7 /\ error = "none" /\ CellPipeline
    \/ last = 8 /\ error = "none" /\ CellFitTransform
    \/ last = 9 /\ error = "none" /\ CellSplit
    \/ last = 10 /\ error = "none" /\ CellScores
    \/ last = 11 /\ error = "none" /\ CellFit
    \/ Restart

Spec == Init /\ [][Next]_vars

(* An interactive session: the cells from the data generation to the       *)
(* fit_transform of the pipeline, executed and re-executed in any order.   *)
(* The cells left out bind no name these cells read.                       *)

NextKernel ==
    \/ CellGenerate
    \/ CellIndex
    \/ CellEmbedWave
    \/ CellPlotWave
    \/ CellEmbedNoise
    \/ CellPipeline
    \/ CellFitTransform

SpecKernel == Init /\ [][NextKernel]_vars

(* print_scores as a function of the arrays it reads: the kernel as the    *)
(* cells before the last one leave it, for every pair of label vectors     *)
(* y_train, y_valid of up to MaxTrain and MaxValid samples.  The lengths   *)
(* stand for the 90 and 10 samples of the notebook's split.                *)

RECURSIVE NamespaceAfter(_, _, _)
NamespaceAfter(cells, k, ns) ==
    IF k > Len(cells) THEN ns
    ELSE NamespaceAfter(cells, k + 1, ExecFrom(cells[k], 1, ns).ns)

\* the code cells, top to bottom
Cells ==
    << VideoStmts, Video2Stmts, GenerateStmts, IndexStmts, EmbedWaveStmts,
       PlotWaveStmts, EmbedNoiseStmts, PipelineStmts, FitTransformStmts,
       SplitStmts, ScoresStmts, FitStmts >>

CellsBeforeFit == SubSeq(Cells, 1, 11)

InitScores ==
    \E nt \in 1..MaxTrain, nv \in 1..MaxValid :
    \E d \in make_gravitational_waves(nt + nv) :
        LET emb == Embedder("TakensEmbedding", 10, 200, 10)
            st == StepsList(emb,
                            Transformer("CollectionTransformer(PCA)", <<3>>),
                            Transformer("VietorisRipsPersistence", <<0, 1>>),
                            Transformer("Scaler", <<>>),
                            Transformer("PersistenceEntropy", <<1, -10>>))
            ft == PipelineFitTransform(st, d.noisy)
            perm == [i \in 0..(nt + nv - 1) |-> i]
            s == Split(ft.rows, d.labels, perm, nv)
        IN  /\ bound = NamespaceAfter(CellsBeforeFit, 1, {})
            /\ last = 11
            /\ error = "none"
            /\ n_signals = nt + nv
            /\ noisy_signals = d.noisy
            /\ gw_signals = d.gw
            /\ labels = d.labels
            /\ background_idx = argmin(d.labels)
            /\ signal_idx = argmax(d.labels)
            /\ ts_noise = d.noisy[argmin(d.labels)]
            /\ ts_background = d.noisy[argmax(d.labels)]
            /\ ts_signal = d.gw[argmax(d.labels)]
            /\ embedding_dimension = 200
            /\ embedding_time_delay = 10
            /\ stride = 10
            /\ embedder = emb
            /\ steps = st
            /\ topological_transfomer = st
            /\ features = ft
            /\ rng42 = perm
            /\ X_train = s.X_train
            /\ X_valid = s.X_valid
            /\ y_train = s.y_train
            /\ y_valid = s.y_valid
            /\ model = Unfitted
            /\ printed = <<>>

NextScores == last = 11 /\ CellFit

SpecScores == InitScores /\ [][NextScores]_vars

-----------------------------------------------------------------------------
(* Properties *)

StageClasses(f) == [k \in 1..Len(f.via) |-> f.via[k].cls]

TakensOfPipeline == Embedder("TakensEmbedding", 10, 200, 10)

C2_ParallelCollections ==
    /\ "labels" \in bound =>
          /\ DOMAIN noisy_signals = 0..(n_signals - 1)
          /\ DOMAIN gw_signals = 0..(n_signals - 1)
          /\ DOMAIN labels = 0..(n_signals - 1)
          /\ \A i \in DOMAIN labels :
                /\ labels[i] \in {0, 1}
                /\ noisy_signals[i].id = i
                /\ gw_signals[i].id = i
    /\ "features" \in bound =>
          /\ DOMAIN features.rows = DOMAIN noisy_signals
          /\ \A i \in DOMAIN features.rows : features.rows[i] = noisy_signals[i].id
    /\ "X_train" \in bound =>
          /\ DOMAIN y_train = DOMAIN X_train
          /\ DOMAIN y_valid = DOMAIN X_valid
          /\ \A k \in DOMAIN X_train : y_train[k] = labels[X_train[k]]
          /\ \A k \in DOMAIN X_valid : y_valid[k] = labels[X_valid[k]]

C2_Witness ==
    /\ "X_train" \in bound
    /\ \E i, j \in DOMAIN labels : labels[i] # labels[j]
    /\ \E k \in DOMAIN X_train : X_train[k] # k

FourLines(lines) ==
    /\ Len(lines) = 4
    /\ lines[1].k = "Accuracy on train:"
    /\ lines[2].k = "ROC AUC on train:"
    /\ lines[3].k = "Accuracy on valid:"
    /\ lines[4].k = "ROC AUC on valid:"

\* v thousandths is num/den rounded to three decimals
IsRounded(v, q) ==
    \/ 2 * (1000 * q.num - v * q.den) < q.den /\ 2 * (v * q.den - 1000 * q.num) < q.den
    \/ 2 * (1000 * q.num - v * q.den) = q.den /\ v % 2 = 0
    \/ 2 * (v * q.den - 1000 * q.num) = q.den /\ v % 2 = 0

PrintedMetrics ==
    /\ IsRounded(printed[1].v, accuracy_score(predict(model, X_train), y_train))
    /\ IsRounded(printed[2].v, roc_auc_score(y_train, predict_proba(model, X_train)))
    /\ IsRounded(printed[3].v, accuracy_score(predict(model, X_valid), y_valid))
    /\ IsRounded(printed[4].v, roc_auc_score(y_valid, predict_proba(model, X_valid)))

\* C3, as stated: once the classifier is fitted, print_scores raises nothing
\* and prints its four lines, whatever the labels and the split.
C3_AlwaysPrints ==
    (last = 12 /\ model.fitted) =>
        /\ error = "none"
        /\ FourLines(printed)
        /\ PrintedMetrics

\* C3, amended: once the classifier is fitted, print_scores prints its four
\* lines, in order and rounded to three decimals, when y_valid holds both
\* classes; when y_valid holds one class only, roc_auc_score raises
\* ValueError and print_scores prints nothing.
C3_PrintsUnlessOneClass ==
    (last = 12 /\ model.fitted) =>
        IF Cardinality(Classes(y_valid)) = 2
        THEN /\ error = "none"
             /\ FourLines(printed)
             /\ PrintedMetrics
        ELSE /\ error = "ValueError"
             /\ printed = <<>>

C3_Witness ==
    /\ last = 12
    /\ model.fitted
    /\ error = "none"
    /\ FourLines(printed)
    /\ printed[1].v = 667

\* C4: every value print_scores prints lies in [0, 1].
C4_MetricsInUnitInterval ==
    \A i \in 1..Len(printed) : printed[i].v >= 0 /\ printed[i].v <= 1000

C4_Witness ==
    /\ Len(printed) = 4
    /\ \E i \in 1..4 : printed[i].v > 0 /\ printed[i].v < 1000
    /\ \E i \in 1..4 : printed[i].v = 1000

\* C5: background_idx is the first index labelled 0 and signal_idx the first
\* index labelled 1; ts_noise holds no wave, and ts_background and ts_signal
\* are the noisy series and the wave of one sample that holds a wave.
C5_FirstNoiseFirstWave ==
    (last = 4 /\ error = "none") =>
        /\ labels[background_idx] = 0
        /\ \A j \in DOMAIN labels : j < background_idx => labels[j] # 0
        /\ labels[signal_idx] = 1
        /\ \A j \in DOMAIN labels : j < signal_idx => labels[j] # 1
        /\ ts_noise.wave = 0
        /\ ts_background.wave = 1
        /\ ts_background.id = ts_signal.id

\* C6: in any order of executions of the cells, features is computed with
\* the TakensEmbedding of dimension 200, time delay 10 and stride 10 as its
\* embedding stage, whatever the global embedder is bound to.
C6_EmbeddingOfFeatures ==
    "features" \in bound =>
        /\ Len(features.via) >= 1
        /\ features.via[1] = TakensOfPipeline

\* a visualisation cell ran between the pipeline cell and fit_transform
C6_Witness ==
    /\ last = 9
    /\ error = "none"
    /\ embedder = Embedder("SingleTakensEmbedding", 30, 30, 5)
    /\ embedding_dimension = 30

\* C7: the split is a partition of the samples into n_test = ceil(n / 10)
\* validation samples and the rest for training, 10 and 90 of the
\* notebook's 100; every row keeps its label; and the partition is the one
\* the seed fixes, the same in every run.
C7_SplitPartitions ==
    /\ n_test(N_SIGNALS) = 10
    /\ n_train(N_SIGNALS) = 90
    /\ "X_train" \in bound =>
          LET T == { X_train[k] : k \in DOMAIN X_train }
              V == { X_valid[k] : k \in DOMAIN X_valid }
          IN  /\ T \cup V = { features.rows[i] : i \in DOMAIN features.rows }
              /\ T \cap V = {}
              /\ Cardinality(T) = Size(X_train)
              /\ Cardinality(V) = Size(X_valid)
              /\ Size(X_valid) = n_test(n_signals)
              /\ 10 * Size(X_valid) >= n_signals
              /\ 10 * (Size(X_valid) - 1) < n_signals
              /\ Size(X_train) = n_signals - n_test(n_signals)
              /\ \A k \in DOMAIN X_train : y_train[k] = labels[X_train[k]]
              /\ \A k \in DOMAIN X_valid : y_valid[k] = labels[X_valid[k]]
              /\ X_valid = [k \in DOMAIN X_valid |-> features.rows[rng42[k]]]
              /\ X_train = [k \in DOMAIN X_train |->
                               features.rows[rng42[Size(X_valid) + k]]]

C7_Witness ==
    /\ last = 10
    /\ error = "none"
    /\ "X_train" \in bound
    /\ Size(X_valid) = 1
    /\ X_valid[0] # 0

\* C8: the accuracies print_scores prints are the fractions of samples whose
\* predicted label is the true one, the order of the two arguments of
\* accuracy_score making no difference.
C8_AccuracySymmetric ==
    (last = 12 /\ model.fitted) =>
        LET pt == predict(model, X_train)
            pv == predict(model, X_valid)
            hits(p, y) == [num |-> Cardinality({ k \in DOMAIN y : p[k] = y[k] }),
                           den |-> Size(y)]
        IN  /\ accuracy_score(pt, y_train) = accuracy_score(y_train, pt)
            /\ accuracy_score(pv, y_valid) = accuracy_score(y_valid, pv)
            /\ accuracy_score(pt, y_train) = hits(pt, y_train)
            /\ accuracy_score(pv, y_valid) = hits(pv, y_valid)
            /\ printed # <<>> =>
                  /\ IsRounded(printed[1].v, hits(pt, y_train))
                  /\ IsRounded(printed[3].v, hits(pv, y_valid))

C8_Witness ==
    /\ last = 12
    /\ model.fitted
    /\ printed # <<>>
    /\ predict(model, X_train) # y_train
    /\ predict(model, X_valid) # y_valid

\* C9: in a run from top to bottom no cell reads a name that is not bound.
C9_NoUnboundName ==
    /\ error # "NameError"
    /\ last >= 1 => bound = NamespaceAfter(SubSeq(Cells, 1, last), 1, {})

C9_Witness ==
    /\ last = 12
    /\ "model" \in bound

\* C10: the classifier is fitted on X_train and y_train, which are the same
\* whatever the labels of the validation samples are.
C10_ValidationLabelsUnused ==
    model.fitted =>
        /\ model.X = X_train
        /\ model.y = y_train
        /\ \A l2 \in Arrays(n_signals, {0, 1}) :
              (\A k \in DOMAIN X_train : l2[X_train[k]] = labels[X_train[k]]) =>
                  LET s2 == Split(PipelineFitTransform(topological_transfomer,
                                                       noisy_signals).rows,
                                  l2, rng42, n_test(n_signals))
                  IN  /\ s2.X_train = model.X
                      /\ s2.y_train = model.y

C10_Witness ==
    /\ last = 12
    /\ model.fitted
    /\ \E k \in DOMAIN X_valid : labels[X_valid[k]] = 1

====
